---- MODULE Spec2Model ----
(***************************************************************************)
(* Model of src/src/utils/receptive_field.py (class ReceptiveField).       *)
(*                                                                         *)
(* Floating point numbers are modelled as exact rationals <<num, den>>     *)
(* with den > 0 (see Rat and Reduce); the float NaN is the pair <<0, 0>>.  *)
(* Python's None is the empty tuple and a present value v is <<v>>.        *)
(* Matrices indexed from 0 in the code are functions on 0..(len-1); the    *)
(* point set X is a sequence, so point j of the code is X[j+1].            *)
(***************************************************************************)
EXTENDS Integers, Sequences, FiniteSets, TLC

VARIABLES rf, cloud, out

vars == <<rf, cloud, out>>

\* ---------------------------------------------------------------------
\* Bounds of the model
\* ---------------------------------------------------------------------
MaxPts == 3

\* ---------------------------------------------------------------------
\* Python / numpy values
\* ---------------------------------------------------------------------
None == <<>>
Some(v) == <<v>>
Val(o) == o[1]

Shadow == -1

Abs(a) == IF a < 0 THEN -a ELSE a
Min(a, b) == IF a <= b THEN a ELSE b

RECURSIVE GCD(_, _)
GCD(a, b) == IF b = 0 THEN a ELSE GCD(b, a % b)

\* A float as the fraction n/d with a positive denominator; the arithmetic
\* keeps fractions as they come and Reduce gives the one representative of
\* a number, which is what is stored and compared.
Rat(n, d) == IF d < 0 THEN <<-n, -d>> ELSE <<n, d>>

Reduce(p) ==
    LET g == GCD(Abs(p[1]), p[2])
    IN  <<p[1] \div g, p[2] \div g>>

NaN == <<0, 0>>
isnan(p) == p[2] = 0

RAdd(p, q) == Rat(p[1] * q[2] + q[1] * p[2], p[2] * q[2])
RSub(p, q) == Rat(p[1] * q[2] - q[1] * p[2], p[2] * q[2])
RMul(p, q) == Rat(p[1] * q[1], p[2] * q[2])
RDiv(p, q) == Rat(p[1] * q[2], p[2] * q[1])
RLeq(p, q) == p[1] * q[2] <= q[1] * p[2]
RFloor(p) == p[1] \div p[2]
RCeil(p) == -((-p[1]) \div p[2])

\* np.floor(q + 1e-15): every rational of the model that is not an integer
\* lies further than 1e-15 below the next integer, so the shift never
\* carries it over.
FloorEps(p) == RFloor(p)

\* np.round: nearest integer, an exact half goes to the even neighbour.
RoundHalfUp(p) == RFloor(RAdd(p, Rat(1, 2)))
np_round(p) ==
    LET f == RFloor(p)
        twice == 2 * (p[1] - f * p[2])
    IN  IF twice < p[2] THEN f
        ELSE IF twice > p[2] THEN f + 1
        ELSE IF f % 2 = 0 THEN f ELSE f + 1

RECURSIVE SumTo(_, _)
SumTo(f, n) == IF n = 0 THEN 0 ELSE f[n] + SumTo(f, n - 1)

RECURSIVE RSumSeq(_, _)
RSumSeq(f, n) == IF n = 0 THEN Rat(0, 1) ELSE RAdd(f[n], RSumSeq(f, n - 1))

RECURSIVE RProdSeq(_, _)
RProdSeq(f, n) == IF n = 0 THEN Rat(1, 1) ELSE RMul(f[n], RProdSeq(f, n - 1))

\* A numpy array holds computed values: the function is evaluated once,
\* not at each use.
Array(f) == f @@ <<>>

\* Python indexing of a sequence of length len with a possibly negative i
PyIndex(i, len) == IF i < 0 THEN i + len ELSE i

\* ---------------------------------------------------------------------
\* Inputs
\* ---------------------------------------------------------------------
CellSizeChoices ==
    { <<>>, << <<0, 1>> >>, << <<-1, 1>> >>,
      << <<1, 2>> >>, << <<4, 5>> >>,
      << <<1, 1>>, <<1, 1>> >>, << <<7, 4>>, <<1, 1>> >>,
      << <<1, 1>>, <<1, 1>>, <<1, 1>> >>, << <<2, 1>>, <<2, 1>>, <<2, 1>> >> }

\* In two dimensions the box has radii 10 and centre 0, so that the points
\* below normalize to (-0.5,-0.5), (0.5,0.5) and (0.9,0.9); in the other
\* dimensions it has radii 2 and centre 1.
BoundingRadiiOf(n) == [k \in 1..n |-> IF n = 2 THEN 10 ELSE 2]
CenterOf(n) == [k \in 1..n |-> IF n = 2 THEN 0 ELSE 1]

\* Points of the axis aligned bounding box of centre CenterOf(n) and radii
\* BoundingRadiiOf(n): the minimum vertex, the centre and the maximum vertex
\* on a line; three inner points of the diagonal in the plane; the minimum
\* and the maximum vertex in space.
PointChoices(n) ==
    IF n = 1 THEN { <<-1>>, <<1>>, <<3>> }
    ELSE IF n = 2 THEN { <<-5, -5>>, <<5, 5>>, <<9, 9>> }
    ELSE { [k \in 1..n |-> -1], [k \in 1..n |-> 3] }

PointSets(n) == UNION { [1..len -> PointChoices(n)] : len \in 0..MaxPts }

\* The calls of fit: every point set with the centre, and the calls that
\* leave out the points, the centre or both.
FitArgs(n) ==
    { <<Some(P), Some(CenterOf(n))>> : P \in PointSets(n) }
        \cup { <<None, Some(CenterOf(n))>>, <<None, None>> }
        \cup { <<Some(<<>>), None>> }

\* ---------------------------------------------------------------------
\* ReceptiveField.__init__
\* ---------------------------------------------------------------------
Two == Rat(2, 1)

\* np.prod(self.cell_size/2)
cell_volume(cell_size) ==
    RProdSeq([k \in 1..Len(cell_size) |-> RDiv(cell_size[k], Two)], Len(cell_size))

num_cells_of(cell_size) == np_round(RDiv(Rat(1, 1), cell_volume(cell_size)))

NoInstance ==
    [constructed |-> FALSE, cell_size |-> <<>>, dimensionality |-> 0,
     bounding_radii |-> None, num_cells |-> 0, N |-> None, x |-> None, m |-> None]

init(cell_size, bounding_radii) ==
    IF bounding_radii = None
    THEN [raised |-> "ValueError", self |-> NoInstance]
    ELSE IF cell_volume(cell_size)[1] = 0
    THEN [raised |-> "OverflowError", self |-> NoInstance]
    ELSE [raised |-> "none",
          self |-> [constructed |-> TRUE,
                    cell_size |-> cell_size,
                    dimensionality |-> Len(cell_size),
                    bounding_radii |-> bounding_radii,
                    num_cells |-> num_cells_of(cell_size),
                    N |-> None, x |-> None, m |-> None]]

\* The documented domain of cell_size: at least one axis, each s_i in (0, 2]
ValidCellSize(cell_size) ==
    /\ Len(cell_size) >= 1
    /\ \A k \in 1..Len(cell_size) :
          /\ cell_size[k][1] > 0
          /\ RLeq(cell_size[k], Two)

\* ---------------------------------------------------------------------
\* ReceptiveField.center_and_scale
\* ---------------------------------------------------------------------
center_and_scale(self, X) ==
    Array([j \in 1..Len(X) |->
        Array([k \in 1..Len(X[j]) |->
            Rat(X[j][k] - Val(self.x)[k], Val(self.bounding_radii)[k])])])

\* ---------------------------------------------------------------------
\* ReceptiveField.shadow_indexing_matrix_from_points
\* ---------------------------------------------------------------------
a_vertex == Rat(-1, 1)
b_vertex == Rat(1, 1)

RECURSIVE dim_factors(_, _)
dim_factors(cell_size, i) ==
    IF i = 1 THEN 1
    ELSE dim_factors(cell_size, i - 1)
            * RCeil(RDiv(RSub(b_vertex, a_vertex), cell_size[i - 1]))

\* the coordinate-wise index of one point on axis k, before the clip
coordinate_index(cell_size, p, k) ==
    FloorEps(RDiv(RSub(p[k], a_vertex), cell_size[k])) * dim_factors(cell_size, k)

\* the coordinate-wise maximum used by np.clip
clip_max(cell_size, k) ==
    (RFloor(RDiv(Two, cell_size[k])) - 1) * dim_factors(cell_size, k)

clipped_index(cell_size, p, k) ==
    Min(coordinate_index(cell_size, p, k), clip_max(cell_size, k))

point_index(cell_size, p) ==
    SumTo([k \in 1..Len(cell_size) |-> clipped_index(cell_size, p, k)], Len(cell_size))

point_indices(cell_size, Xn) ==
    Array([j \in 1..Len(Xn) |-> point_index(cell_size, Xn[j])])

\* (variant: one column per point)
max_num_neighs_total(I) == Len(I)

\* np.max(np.unique(I[I != -1], return_counts=True)[1])
max_num_neighs(I) ==
    LET counted == { I[j] : j \in { jj \in 1..Len(I) : I[jj] # Shadow } }
        count(i) == Cardinality({ j \in 1..Len(I) : I[j] = i })
    IN  CHOOSE c \in { count(i) : i \in counted } :
            \A i \in counted : count(i) <= c

\* (variant: the slot pointer of the cell is not advanced)
populate_step_no_advance(st, i, j) ==
    [N |-> [st.N EXCEPT ![i][st.index_pointers[i]] = j],
     index_pointers |-> st.index_pointers]

\* one iteration of the loop that populates the cells:
\*   N[i, index_pointers[i]] = j ; index_pointers[i] += 1
populate_step(st, i, j) ==
    [N |-> [st.N EXCEPT ![i][st.index_pointers[i]] = j],
     index_pointers |-> [st.index_pointers EXCEPT ![i] = @ + 1]]

RECURSIVE populate(_, _, _, _, _)
populate(I, pos, st, rows, cols) ==
    IF pos > Len(I) THEN [raised |-> "none", N |-> st.N]
    ELSE LET i == PyIndex(I[pos], rows)
         IN  IF i < 0 \/ i >= rows THEN [raised |-> "IndexError", N |-> st.N]
             ELSE IF st.index_pointers[i] >= cols THEN [raised |-> "IndexError", N |-> st.N]
             ELSE populate(I, pos + 1, populate_step(st, i, pos - 1), rows, cols)

shadow_indexing_matrix_from_points(self, Xn) ==
    IF Len(Xn) = 0 THEN [raised |-> "ValueError", N |-> None]
    ELSE LET I == point_indices(self.cell_size, Xn)
         IN  IF \A j \in 1..Len(I) : I[j] = Shadow
             THEN [raised |-> "ValueError", N |-> None]
             ELSE LET cols == max_num_neighs(I)
                      rows == self.num_cells
                      st0 == [N |-> [i \in 0..(rows - 1) |-> [c \in 0..(cols - 1) |-> Shadow]],
                              index_pointers |-> [i \in 0..(rows - 1) |-> 0]]
                  IN  populate(I, 1, st0, rows, cols)

\* ---------------------------------------------------------------------
\* ReceptiveField.fit
\* ---------------------------------------------------------------------
\* (variant: the points of the earlier fits are still counted in m)
fit_accumulating(self, X, x) ==
    IF x = None THEN [raised |-> "ValueError", self |-> self]
    ELSE IF X = None THEN [raised |-> "ValueError", self |-> self]
    ELSE LET self1 == [self EXCEPT !.x = x]
             Xn == center_and_scale(self1, Val(X))
             r == shadow_indexing_matrix_from_points(self1, Xn)
             seen == IF self.m = None THEN 0 ELSE Val(self.m)
         IN  IF r.raised # "none" THEN [raised |-> r.raised, self |-> self1]
             ELSE [raised |-> "none",
                   self |-> [self1 EXCEPT !.N = Some(r.N), !.m = Some(seen + Len(Xn))]]

fit(self, X, x) ==
    IF x = None THEN [raised |-> "ValueError", self |-> self]
    ELSE IF X = None THEN [raised |-> "ValueError", self |-> self]
    ELSE LET self1 == [self EXCEPT !.x = x]
             Xn == center_and_scale(self1, Val(X))
             r == shadow_indexing_matrix_from_points(self1, Xn)
         IN  IF r.raised # "none" THEN [raised |-> r.raised, self |-> self1]
             ELSE [raised |-> "none",
                   self |-> [self1 EXCEPT !.N = Some(r.N), !.m = Some(Len(Xn))]]

\* ---------------------------------------------------------------------
\* ReceptiveField.centroids_from_points
\* ---------------------------------------------------------------------
\* not_nan_flags[i] : np.sum(self.N >= 0, axis=1, dtype=bool)
not_nan_flag(N, i) == \E c \in DOMAIN N[i] : N[i][c] >= 0

\* the rows of N with at least one point, in ascending order
RECURSIVE non_empty_rows(_, _)
non_empty_rows(N, rows) ==
    IF rows = 0 THEN <<>>
    ELSE LET before == non_empty_rows(N, rows - 1)
         IN  IF not_nan_flag(N, rows - 1) THEN Append(before, rows - 1) ELSE before

NumRows(N) == Cardinality(DOMAIN N)

\* np.mean(rows, axis=0) of the vectors vecs[i], i in idx (NaN when idx is empty)
mean_of(vecs, idx, n) ==
    IF idx = {} THEN [k \in 1..n |-> NaN]
    ELSE Array([k \in 1..n |->
            Reduce(RDiv(RSumSeq([i \in 1..Len(vecs) |->
                             IF i \in idx THEN vecs[i][k] ELSE Rat(0, 1)], Len(vecs)),
                 Rat(Cardinality(idx), 1)))])

\* (variant: the shadow slots are not left out, so that the index -1 reads
\* the last point)
cell_centroid_unfiltered(Xn, Ni, n) ==
    mean_of(Xn, { PyIndex(Ni[c], Len(Xn)) + 1 : c \in DOMAIN Ni }, n)

\* np.mean(X[Ni[Ni >= 0]], axis=0)
cell_centroid(Xn, Ni, n) ==
    mean_of(Xn, { Ni[c] + 1 : c \in { cc \in DOMAIN Ni : Ni[cc] >= 0 } }, n)

cells_per_axis(cell_size, k) == RCeil(RDiv(RSub(b_vertex, a_vertex), cell_size[k]))

\* np.prod(cells_per_axis[:j])
RECURSIVE prod_cells_per_axis(_, _)
prod_cells_per_axis(cell_size, j) ==
    IF j = 0 THEN 1
    ELSE prod_cells_per_axis(cell_size, j - 1) * cells_per_axis(cell_size, j)

num_steps(cell_size, missing_idx, k) ==
    (missing_idx \div prod_cells_per_axis(cell_size, k - 1)) % cells_per_axis(cell_size, k)

sup_missing_Y(cell_size, missing_idx) ==
    [k \in 1..Len(cell_size) |->
        RAdd(a_vertex, RMul(Rat(num_steps(cell_size, missing_idx, k), 1), cell_size[k]))]

dist2(p, q) ==
    RSumSeq([k \in 1..Len(p) |-> RMul(RSub(p[k], q[k]), RSub(p[k], q[k]))], Len(p))

num_neighs_of(n) == 3 ^ n - 1

\* KDTree.query(sup, k)[1]: the indices (from 0) of the k nearest rows of
\* non_empty_Y; a neighbour that does not exist is reported as the index
\* len(non_empty_Y). Which of several equidistant rows is returned is left
\* to the tree, so every nearest selection is possible.
kdt_query(non_empty_Y, sup, k) ==
    LET cnt == Len(non_empty_Y)
        kk == Min(k, cnt)
        d(i) == dist2(non_empty_Y[i + 1], sup)
    IN  { S \cup (IF k > cnt THEN { cnt } ELSE {}) :
            S \in { T \in SUBSET (0..(cnt - 1)) :
                      /\ Cardinality(T) = kk
                      /\ \A i \in T : \A o \in (0..(cnt - 1)) \ T : RLeq(d(i), d(o)) } }

\* (variant: the neighbours that do not exist are not filtered out)
filter_neighbors_none(Ii, cnt, k) == Ii

\* if non_empty_Y.shape[0] < num_neighs: I = [Ii[Ii < non_empty_Y.shape[0]] ...]
filter_neighbors(Ii, cnt, k) ==
    IF cnt < k THEN { i \in Ii : i < cnt } ELSE Ii

\* the rows an empty cell can be given by the interpolation
\* (the string "IndexError" when a neighbour index is out of bounds)
interpolated_rows(cell_size, non_empty_Y, missing_idx) ==
    LET n == Len(cell_size)
        cnt == Len(non_empty_Y)
        k == num_neighs_of(n)
    IN  { LET Ii == filter_neighbors(Q, cnt, k)
          IN  IF \E i \in Ii : i >= cnt THEN <<"IndexError">>
              ELSE mean_of(non_empty_Y, { i + 1 : i \in Ii }, n) :
          Q \in kdt_query(non_empty_Y, sup_missing_Y(cell_size, missing_idx), k) }

\* every way to give each of the first cnt cells of Yseq one of its rows
RECURSIVE row_products(_, _)
row_products(rowsets, cnt) ==
    IF cnt = 0 THEN { <<>> }
    ELSE { Append(s, r) : s \in row_products(rowsets, cnt - 1), r \in rowsets[cnt] }

\* The set of outcomes of centroids_from_points(X, interpolate)
centroids_from_points(self, X, interpolate) ==
    IF self.x = None \/ self.N = None \/ X = None
    THEN { [raised |-> "TypeError", Y |-> None] }
    ELSE LET N == Val(self.N)
             n == self.dimensionality
             rows == NumRows(N)
             Xn == center_and_scale(self, Val(X))
         IN  IF \E i \in DOMAIN N : \E c \in DOMAIN N[i] : N[i][c] >= Len(Xn)
             THEN { [raised |-> "IndexError", Y |-> None] }
             ELSE LET Y0 == Array([i \in 0..(rows - 1) |->
                               IF not_nan_flag(N, i) THEN cell_centroid(Xn, N[i], n)
                               ELSE [k \in 1..n |-> NaN]])
                      filled == non_empty_rows(N, rows)
                      non_empty_Y == Array([p \in 1..Len(filled) |-> Y0[filled[p]]])
                      rowsets == Array([p \in 1..rows |->
                                    IF not_nan_flag(N, p - 1) THEN { Y0[p - 1] }
                                    ELSE interpolated_rows(self.cell_size, non_empty_Y, p - 1)])
                  IN  IF ~interpolate THEN { [raised |-> "none", Y |-> Some(Y0)] }
                      ELSE { IF \E p \in 1..rows : s[p] = <<"IndexError">>
                             THEN [raised |-> "IndexError", Y |-> None]
                             ELSE [raised |-> "none",
                                   Y |-> Some([i \in 0..(rows - 1) |-> s[i + 1]])] :
                             s \in row_products(rowsets, rows) }

\* ---------------------------------------------------------------------
\* ReceptiveField.propagate_values
\* ---------------------------------------------------------------------
\* (variant: the buffer is taken to have no reserved row, so that the
\* shadow index -1 addresses the row of the last point)
scatter_unreserved(Y, Ni, val) ==
    [r \in DOMAIN Y |->
        IF \E c \in DOMAIN Ni : PyIndex(Ni[c], Cardinality(DOMAIN Y) - 1) = r
        THEN val ELSE Y[r]]

\* Y[Ni] = v[i]: every index of the row Ni, the shadow index -1 included,
\* addresses a row of Y the way Python does
scatter(Y, Ni, val) ==
    [r \in DOMAIN Y |->
        IF \E c \in DOMAIN Ni : PyIndex(Ni[c], Cardinality(DOMAIN Y)) = r THEN val ELSE Y[r]]

\* (variant: the value is looked up by the index of the cell, not by the
\* position of the cell among the non-empty ones)
RECURSIVE populate_output_by_cell(_, _, _, _, _)
populate_output_by_cell(Y, N, filled, v, i) ==
    IF i >= Len(filled) THEN [raised |-> "none", Y |-> Y]
    ELSE IF filled[i + 1] >= Len(v) THEN [raised |-> "IndexError", Y |-> Y]
    ELSE populate_output_by_cell(scatter(Y, N[filled[i + 1]], v[filled[i + 1] + 1]),
                                 N, filled, v, i + 1)

RECURSIVE populate_output(_, _, _, _, _)
populate_output(Y, N, filled, v, i) ==
    IF i >= Len(filled) THEN [raised |-> "none", Y |-> Y]
    ELSE IF i >= Len(v) THEN [raised |-> "IndexError", Y |-> Y]
    ELSE populate_output(scatter(Y, N[filled[i + 1]], v[i + 1]), N, filled, v, i + 1)

\* (variant: the cells are paired with the values as far as both last, and
\* the output is not validated)
propagate_values_lenient(self, v, safe) ==
    IF Len(v) = 0 THEN [raised |-> "IndexError", Y |-> None]
    ELSE IF self.m = None THEN [raised |-> "TypeError", Y |-> None]
    ELSE LET m == Val(self.m)
             N == Val(self.N)
             filled == non_empty_rows(N, NumRows(N))
             Yfull == [r \in 0..m |-> NaN]
             r == populate_output(Yfull, N, SubSeq(filled, 1, Min(Len(filled), Len(v))), v, 0)
         IN  [raised |-> "none", Y |-> Some([j \in 0..(m - 1) |-> r.Y[j]])]

\* (variant: an instance that was not fit counts as fit on no points)
propagate_values_unfitted(self, v, safe) ==
    IF Len(v) = 0 THEN [raised |-> "IndexError", Y |-> None]
    ELSE IF self.m = None THEN [raised |-> "none", Y |-> Some(<<>>)]
    ELSE LET m == Val(self.m)
             N == Val(self.N)
             r == populate_output([r \in 0..m |-> NaN], N,
                                  non_empty_rows(N, NumRows(N)), v, 0)
             Y == [j \in 0..(m - 1) |-> r.Y[j]]
         IN  IF r.raised # "none" THEN [raised |-> r.raised, Y |-> None]
             ELSE IF safe /\ \E j \in DOMAIN Y : isnan(Y[j])
             THEN [raised |-> "ValueError", Y |-> None]
             ELSE [raised |-> "none", Y |-> Some(Y)]

\* The values are scalars (val_dim = 1), so the output is the flattened vector.
propagate_values(self, v, safe) ==
    IF Len(v) = 0 THEN [raised |-> "IndexError", Y |-> None]
    ELSE IF self.m = None THEN [raised |-> "TypeError", Y |-> None]
    ELSE LET m == Val(self.m)
             N == Val(self.N)
             Yfull == [r \in 0..m |-> NaN]
             r == populate_output(Yfull, N, non_empty_rows(N, NumRows(N)), v, 0)
             Y == [j \in 0..(m - 1) |-> r.Y[j]]
         IN  IF r.raised # "none" THEN [raised |-> r.raised, Y |-> None]
             ELSE IF safe /\ \E j \in DOMAIN Y : isnan(Y[j])
             THEN [raised |-> "ValueError", Y |-> None]
             ELSE [raised |-> "none", Y |-> Some(Y)]

\* The values a caller propagates: the index of each non-empty cell, in
\* ascending order of the cells (the round trip of the cell indices); the
\* same with the last value missing; the same with NaN as the first value.
ValueChoices(self) ==
    IF self.N = None THEN { <<>>, << Rat(0, 1) >> }
    ELSE LET filled == non_empty_rows(Val(self.N), NumRows(Val(self.N)))
             own == [i \in 1..Len(filled) |-> Rat(filled[i], 1)]
         IN  { own, SubSeq(own, 1, Len(own) - 1), [own EXCEPT ![1] = NaN] }

\* ---------------------------------------------------------------------
\* State machine
\* ---------------------------------------------------------------------
\* the attributes that __init__ derives from its arguments
Config(self) == <<self.cell_size, self.bounding_radii, self.num_cells>>

\* out is the record of the last call: the operation, what it raised, its
\* arguments and its return value, whether the instance held an indexing
\* matrix when the call was made (refit) and the configuration that the
\* instance had when the call was made (config).
Init ==
    /\ rf = NoInstance
    /\ cloud = None
    /\ out = [op |-> "none", raised |-> "none", arg |-> <<>>, ret |-> None,
              refit |-> FALSE, config |-> Config(NoInstance)]

Construct(cell_size, bounding_radii) ==
    /\ ~rf.constructed
    /\ LET r == init(cell_size, bounding_radii)
       IN  /\ rf' = r.self
           /\ out' = [op |-> "construct", raised |-> r.raised,
                      arg |-> <<cell_size, bounding_radii>>, ret |-> None,
                      refit |-> FALSE, config |-> Config(rf)]
    /\ UNCHANGED cloud

\* fit is exercised on instances whose cell_size lies in the documented
\* domain, with points inside the bounding box (docstring of
\* shadow_indexing_matrix_from_points).
Fit(X, x) ==
    /\ rf.constructed
    /\ ValidCellSize(rf.cell_size)
    /\ LET r == fit(rf, X, x)
       IN  /\ rf' = r.self
           /\ cloud' = IF r.raised = "none" THEN X ELSE cloud
           /\ out' = [op |-> "fit", raised |-> r.raised, arg |-> <<X, x>>, ret |-> None,
                      refit |-> rf.N # None, config |-> Config(rf)]

Centroids(interpolate) ==
    /\ rf.constructed
    /\ ValidCellSize(rf.cell_size)
    /\ \E r \in centroids_from_points(rf, cloud, interpolate) :
          out' = [op |-> "centroids", raised |-> r.raised,
                  arg |-> <<cloud, interpolate>>, ret |-> r.Y, refit |-> FALSE,
                  config |-> Config(rf)]
    /\ UNCHANGED <<rf, cloud>>

Propagate(v, safe) ==
    /\ rf.constructed
    /\ ValidCellSize(rf.cell_size)
    /\ LET r == propagate_values(rf, v, safe)
       IN  out' = [op |-> "propagate", raised |-> r.raised,
                   arg |-> <<v, safe>>, ret |-> r.Y, refit |-> FALSE,
                   config |-> Config(rf)]
    /\ UNCHANGED <<rf, cloud>>

Next ==
    \/ \E cs \in CellSizeChoices :
          \E br \in { None, Some(BoundingRadiiOf(Len(cs))) } : Construct(cs, br)
    \/ \E args \in FitArgs(rf.dimensionality) : Fit(args[1], args[2])
    \/ \E interpolate \in BOOLEAN : Centroids(interpolate)
    \/ \E v \in ValueChoices(rf) : \E safe \in BOOLEAN : Propagate(v, safe)

Spec == Init /\ [][Next]_vars

\* ---------------------------------------------------------------------
\* Properties
\* ---------------------------------------------------------------------
Fitted == rf.N # None
Slots(N) == UNION { { <<i, c>> : c \in DOMAIN N[i] } : i \in DOMAIN N }
PointsOfCell(N, i) == { N[i][c] : c \in { cc \in DOMAIN N[i] : N[i][cc] # Shadow } }
NonEmptyCells(N) == { i \in DOMAIN N : PointsOfCell(N, i) # {} }
CellOf(N, j) == CHOOSE i \in DOMAIN N : j \in PointsOfCell(N, i)
RankOf(N, i) == Cardinality({ i2 \in NonEmptyCells(N) : i2 <= i })
IsOne(q) == q[1] = q[2]
InBox(p) == \A k \in 1..Len(p) : RLeq(a_vertex, p[k]) /\ RLeq(p[k], b_vertex)
HasNaN(v) == \E i \in 1..Len(v) : isnan(v[i])
FitCall == out.op = "fit"
PropagateCall == out.op = "propagate"

\* C1: after a successful fit on m points, every point index 0..m-1 is in
\* exactly one slot of the indexing matrix N and every other slot holds the
\* shadow index -1.
C1_IndexCoverage ==
    (FitCall /\ out.raised = "none") =>
        LET N == Val(rf.N)
            m == Val(rf.m)
        IN  /\ m = Len(Val(out.arg[1]))
            /\ \A j \in 0..(m - 1) :
                  Cardinality({ s \in Slots(N) : N[s[1]][s[2]] = j }) = 1
            /\ \A s \in Slots(N) :
                  N[s[1]][s[2]] = Shadow \/ N[s[1]][s[2]] \in 0..(m - 1)

\* a fit of three points, two of them in one cell, that leaves shadow slots
C1_Witness ==
    /\ FitCall /\ out.raised = "none"
    /\ Val(rf.m) = 3
    /\ \E i \in DOMAIN Val(rf.N) : Cardinality(PointsOfCell(Val(rf.N), i)) = 2
    /\ \E s \in Slots(Val(rf.N)) : Val(rf.N)[s[1]][s[2]] = Shadow

\* C2: for every cell_size of the documented domain and every point with
\* normalized coordinates in [-1,1]^n, the flattened cell index fit computes
\* is a row of the indexing matrix: it lies in 0..num_cells-1.
C2_IndexInRange ==
    (FitCall /\ out.arg[1] # None /\ out.arg[2] # None) =>
        LET Xn == center_and_scale(rf, Val(out.arg[1]))
        IN  \A j \in 1..Len(Xn) :
                InBox(Xn[j]) =>
                    point_index(rf.cell_size, Xn[j]) \in 0..(rf.num_cells - 1)

\* C3: a point at the maximum vertex of the bounding box (normalized
\* coordinate +1 on every axis) gets on each axis the cell coordinate
\* (number of cells of the axis - 1) and the largest valid flattened index.
C3_MaxVertexLastCell ==
    (FitCall /\ out.arg[1] # None /\ out.arg[2] # None) =>
        LET Xn == center_and_scale(rf, Val(out.arg[1]))
            cs == rf.cell_size
        IN  \A j \in 1..Len(Xn) :
                (\A k \in 1..Len(cs) : IsOne(Xn[j][k])) =>
                    /\ \A k \in 1..Len(cs) :
                          clipped_index(cs, Xn[j], k)
                              = (cells_per_axis(cs, k) - 1) * dim_factors(cs, k)
                    /\ point_index(cs, Xn[j]) = rf.num_cells - 1

\* the output of propagate_values gives every point the value of its cell
PropagatedByCell(N, m, v, Y) ==
    /\ DOMAIN Y = 0..(m - 1)
    /\ \A j \in 0..(m - 1) : Y[j] = v[RankOf(N, CellOf(N, j))]

\* propagating the index of every non-empty cell gives every point the cell
\* index that fit computes for it
RecoversCellIndex(v, Y) ==
    LET N == Val(rf.N)
        Xn == center_and_scale(rf, Val(cloud))
    IN  (\A i \in NonEmptyCells(N) : v[RankOf(N, i)] = Rat(i, 1)) =>
            \A j \in 1..Len(Xn) : Y[j - 1] = Rat(point_index(rf.cell_size, Xn[j]), 1)

\* C4 (as stated): propagate_values(v) with one value per non-empty cell in
\* ascending cell order returns m outputs, the output of point j being the
\* value supplied for the cell of j; propagating the cell indices recovers
\* the cell index of every point.
C4_PropagateAsStated ==
    (PropagateCall /\ Fitted /\ Len(out.arg[1]) = Cardinality(NonEmptyCells(Val(rf.N)))) =>
        /\ out.raised = "none"
        /\ PropagatedByCell(Val(rf.N), Val(rf.m), out.arg[1], Val(out.ret))
        /\ RecoversCellIndex(out.arg[1], Val(out.ret))

\* C4 (amended): the same, provided safe mode is off or no supplied value is
\* NaN; in safe mode with a NaN among the values the call raises instead.
C4_Propagate ==
    (PropagateCall /\ Fitted /\ Len(out.arg[1]) = Cardinality(NonEmptyCells(Val(rf.N)))) =>
        IF out.arg[2] /\ HasNaN(out.arg[1])
        THEN out.raised = "ValueError" /\ out.ret = None
        ELSE /\ out.raised = "none"
             /\ PropagatedByCell(Val(rf.N), Val(rf.m), out.arg[1], Val(out.ret))
             /\ RecoversCellIndex(out.arg[1], Val(out.ret))

\* the indices of two non-empty cells propagated to three points, the first
\* non-empty cell not being cell 0 or a row of N holding a shadow slot
C4_Witness ==
    /\ PropagateCall /\ Fitted /\ out.raised = "none"
    /\ ~HasNaN(out.arg[1])
    /\ Len(out.arg[1]) = 2
    /\ Cardinality(NonEmptyCells(Val(rf.N))) = 2
    /\ Val(rf.m) = 3
    /\ \E i \in NonEmptyCells(Val(rf.N)) : \E c \in DOMAIN Val(rf.N)[i] : Val(rf.N)[i][c] = Shadow

\* C5 (as stated): propagate_values(v, safe=True) raises whenever len(v) is
\* smaller than the number of non-empty cells of the last fit and returns m
\* outputs whenever len(v) equals that number.
C5_SafePropagationAsStated ==
    (PropagateCall /\ Fitted /\ out.arg[2]) =>
        LET cnt == Cardinality(NonEmptyCells(Val(rf.N)))
            v == out.arg[1]
        IN  /\ Len(v) < cnt => (out.raised # "none" /\ out.ret = None)
            /\ Len(v) = cnt =>
                  (out.raised = "none" /\ DOMAIN Val(out.ret) = 0..(Val(rf.m) - 1))

\* C5 (amended): propagate_values(v, safe=True) raises whenever len(v) is
\* smaller than the number of non-empty cells; when len(v) equals it, the
\* call returns m outputs if no value is NaN and raises if some value is NaN.
C5_SafePropagation ==
    (PropagateCall /\ Fitted /\ out.arg[2]) =>
        LET cnt == Cardinality(NonEmptyCells(Val(rf.N)))
            v == out.arg[1]
        IN  /\ Len(v) < cnt => (out.raised # "none" /\ out.ret = None)
            /\ (Len(v) = cnt /\ ~HasNaN(v)) =>
                  (out.raised = "none" /\ DOMAIN Val(out.ret) = 0..(Val(rf.m) - 1))
            /\ (Len(v) = cnt /\ HasNaN(v)) =>
                  (out.raised = "ValueError" /\ out.ret = None)

\* safe propagation of one value less than there are non-empty cells
C5_Witness ==
    /\ PropagateCall /\ Fitted /\ out.arg[2]
    /\ Cardinality(NonEmptyCells(Val(rf.N))) = 3
    /\ Len(out.arg[1]) = 2
    /\ out.raised # "none"

\* C6: fit is all-or-nothing: a call that fails leaves N, x and m as they
\* were, a call that succeeds sets all three for the new point set.
C6_FitAllOrNothing ==
    [][ (out'.op = "fit") =>
          IF out'.raised # "none"
          THEN rf'.N = rf.N /\ rf'.x = rf.x /\ rf'.m = rf.m
          ELSE /\ rf'.x = out'.arg[2]
               /\ rf'.m = Some(Len(Val(out'.arg[1])))
               /\ rf'.N # None ]_vars

\* C7: num_cells is 1 / prod(cell_size_i / 2) rounded to the nearest integer,
\* an exact half being rounded up, and is at least 1; [1,1,1] gives 8 and
\* [2,2,2] gives 1.
C7_NumCellsHalfUp ==
    (rf.constructed /\ ValidCellSize(rf.cell_size)) =>
        /\ rf.num_cells = RoundHalfUp(RDiv(Rat(1, 1), cell_volume(rf.cell_size)))
        /\ rf.num_cells >= 1
        /\ rf.cell_size = << <<1, 1>>, <<1, 1>>, <<1, 1>> >> => rf.num_cells = 8
        /\ rf.cell_size = << <<2, 1>>, <<2, 1>>, <<2, 1>> >> => rf.num_cells = 1

\* C8: the construction fails and yields no instance if a component of
\* cell_size is <= 0, if cell_size is empty or if bounding_radii is absent.
C8_ConstructorRejects ==
    (out.op = "construct") =>
        LET cs == out.arg[1]
            br == out.arg[2]
        IN  (Len(cs) = 0 \/ (\E k \in 1..Len(cs) : cs[k][1] <= 0) \/ br = None) =>
                (out.raised # "none" /\ ~rf.constructed)

\* C9: fit of a point set with no points (and a centre) succeeds, sets m = 0
\* and leaves every slot of the indexing matrix, if any, at the shadow index.
C9_FitOfNoPoints ==
    (FitCall /\ out.arg[1] = Some(<<>>) /\ out.arg[2] # None) =>
        /\ out.raised = "none"
        /\ rf.m = Some(0)
        /\ rf.N # None
        /\ \A s \in Slots(Val(rf.N)) : Val(rf.N)[s[1]][s[2]] = Shadow

\* the centroid of a non-empty cell: the mean of the normalized points that
\* the indexing matrix lists for it
CentroidOf(N, Xn, i) == mean_of(Xn, { j + 1 : j \in PointsOfCell(N, i) }, Len(rf.cell_size))

\* row is the mean of a nearest selection of size cardinality among the
\* centroids of the non-empty cells, seen from the support point of cell i
MeanOfNearest(N, Xn, i, row, cardinality) ==
    LET ne == NonEmptyCells(N)
        sup == sup_missing_Y(rf.cell_size, i)
        d(c) == dist2(CentroidOf(N, Xn, c), sup)
    IN  \E S \in SUBSET ne :
            /\ Cardinality(S) = cardinality
            /\ \A c \in S : \A o \in ne \ S : RLeq(d(c), d(o))
            /\ \A k \in 1..Len(rf.cell_size) :
                  row[k] = Reduce(RDiv(
                      RSumSeq([q \in 1..NumRows(N) |->
                                  IF (q - 1) \in S THEN CentroidOf(N, Xn, q - 1)[k]
                                  ELSE Rat(0, 1)], NumRows(N)),
                      Rat(cardinality, 1)))

\* C10: with at least one non-empty cell, centroids_from_points(X,
\* interpolate=True) returns no NaN row: every empty cell holds the mean of
\* its nearest non-empty centroids, 3^n - 1 of them or all of them when
\* there are fewer.
C10_InterpolationFillsGaps ==
    (out.op = "centroids" /\ out.arg[2] /\ Fitted) =>
        /\ out.raised = "none"
        /\ LET N == Val(rf.N)
               Y == Val(out.ret)
               Xn == center_and_scale(rf, Val(cloud))
               n == Len(rf.cell_size)
           IN  /\ \A i \in DOMAIN N : \A k \in 1..n : ~isnan(Y[i][k])
               /\ \A i \in (DOMAIN N) \ NonEmptyCells(N) :
                     MeanOfNearest(N, Xn, i, Y[i],
                                   Min(3 ^ n - 1, Cardinality(NonEmptyCells(N))))

\* an interpolation with an empty cell and more non-empty cells than the
\* 3^n - 1 neighbours that are used
C10_Witness ==
    /\ out.op = "centroids" /\ out.arg[2] /\ Fitted /\ out.raised = "none"
    /\ NonEmptyCells(Val(rf.N)) # DOMAIN Val(rf.N)
    /\ Cardinality(NonEmptyCells(Val(rf.N))) > 3 ^ Len(rf.cell_size) - 1

\* C11: centroids_from_points(X, interpolate=False) returns one row per cell
\* in ascending cell order (num_cells rows): the row of a cell with members
\* is the mean of the normalized coordinates of exactly the points that the
\* indexing matrix lists for the cell, the row of a cell without members is
\* NaN. With cell_size [1,1] and the normalized points (-0.5,-0.5),
\* (0.5,0.5), (0.9,0.9): point 0 is alone in cell 0, points 1 and 2 share
\* cell 3 whose centroid is their mean (0.7,0.7), cells 1 and 2 are empty.
C11_CentroidsPerCell ==
    (out.op = "centroids" /\ ~out.arg[2] /\ Fitted) =>
        /\ out.raised = "none"
        /\ LET N == Val(rf.N)
               Y == Val(out.ret)
               Xn == center_and_scale(rf, Val(cloud))
               n == Len(rf.cell_size)
           IN  /\ DOMAIN Y = 0..(rf.num_cells - 1)
               /\ \A i \in NonEmptyCells(N) : Y[i] = CentroidOf(N, Xn, i)
               /\ \A i \in (DOMAIN Y) \ NonEmptyCells(N) :
                     \A k \in 1..n : isnan(Y[i][k])
               /\ (/\ rf.cell_size = << <<1, 1>>, <<1, 1>> >>
                   /\ Xn = << <<Rat(-5, 10), Rat(-5, 10)>>,
                              <<Rat(5, 10), Rat(5, 10)>>,
                              <<Rat(9, 10), Rat(9, 10)>> >>) =>
                     /\ PointsOfCell(N, 0) = {0}
                     /\ PointsOfCell(N, 3) = {1, 2}
                     /\ NonEmptyCells(N) = {0, 3}
                     /\ Y[0] = << <<-1, 2>>, <<-1, 2>> >>
                     /\ Y[3] = << <<7, 10>>, <<7, 10>> >>
                     /\ Y[1] = <<NaN, NaN>> /\ Y[2] = <<NaN, NaN>>

\* the centroids of the scenario: a cell of one point, a cell of two points
\* and two empty cells
C11_Witness ==
    /\ out.op = "centroids" /\ ~out.arg[2] /\ Fitted /\ out.raised = "none"
    /\ rf.cell_size = << <<1, 1>>, <<1, 1>> >>
    /\ cloud = Some(<< <<-5, -5>>, <<5, 5>>, <<9, 9>> >>)
    /\ Val(out.ret)[3] = << <<7, 10>>, <<7, 10>> >>
    /\ isnan(Val(out.ret)[1][1])

\* C12: propagate_values on an instance that has never been fit (no fit has
\* completed, so m is None) raises and returns no output, whatever the
\* values and the mode.
C12_PropagateBeforeFit ==
    (PropagateCall /\ rf.m = None) =>
        /\ out.raised # "none"
        /\ out.ret = None

\* a value propagated in lenient mode by an instance that was never fit:
\* the call gets as far as the allocation of the m+1 rows and fails there
C12_Witness ==
    /\ PropagateCall /\ rf.m = None /\ rf.N = None /\ rf.x = None
    /\ Len(out.arg[1]) = 1 /\ ~out.arg[2]
    /\ out.raised = "TypeError" /\ out.ret = None

\* the state of a fresh instance of the configuration of rf after fitting
\* the points X with the centre x, and nothing else
FitAlone(X, x) == fit(init(rf.cell_size, rf.bounding_radii).self, X, x).self

\* C13: after a successful fit, N, x and m are exactly those that a fresh
\* instance of the same cell_size and bounding_radii has after fitting the
\* same point set and centre, whatever the instance was fit on before (so
\* after any sequence of fits only the last one shows); and cell_size,
\* bounding_radii and num_cells are those that the instance had when fit
\* was called.
C13_RefitDiscardsPrior ==
    (FitCall /\ out.raised = "none") =>
        LET alone == FitAlone(out.arg[1], out.arg[2])
        IN  /\ rf.N = alone.N /\ rf.x = alone.x /\ rf.m = alone.m
            /\ rf = alone
            /\ Config(rf) = out.config

\* a fit of one point on an instance that was fit before: the matrix has one
\* column and m is 1, whatever the earlier fit had
C13_Witness ==
    /\ FitCall /\ out.refit /\ out.raised = "none"
    /\ rf.m = Some(1)
    /\ \A i \in DOMAIN Val(rf.N) : DOMAIN Val(rf.N)[i] = {0}

\* the rows that the write of one cell changes in a buffer of m+1 NaN rows
WrittenRows(N, m, i) ==
    LET before == [r \in 0..m |-> NaN]
        after == scatter(before, N[i], Rat(i, 1))
    IN  { r \in 0..m : after[r] # before[r] }

\* C14: in propagate_values the writes through the shadow slots (-1) of the
\* indexing matrix land on the reserved row m of the (m+1)-row buffer only:
\* the write of a cell changes the rows of its own points and, if the cell
\* has a shadow slot, row m, and no other; the output of every point, the
\* last point m-1 included, is the value of its own cell.
C14_ShadowWritesReservedRow ==
    Fitted =>
        LET N == Val(rf.N)
            m == Val(rf.m)
        IN  /\ m >= 1
            /\ \A i \in NonEmptyCells(N) :
                  WrittenRows(N, m, i) =
                      PointsOfCell(N, i)
                          \cup (IF \E c \in DOMAIN N[i] : N[i][c] = Shadow
                                THEN {m} ELSE {})
            /\ (PropagateCall /\ out.raised = "none") =>
                  /\ DOMAIN Val(out.ret) = 0..(m - 1)
                  /\ Val(out.ret)[m - 1]
                        = out.arg[1][RankOf(N, CellOf(N, m - 1))]

\* a propagation in which a cell with a shadow slot is written after the
\* cell of the last point, with another value
C14_Witness ==
    /\ PropagateCall /\ Fitted /\ out.raised = "none"
    /\ LET N == Val(rf.N)
           m == Val(rf.m)
           v == out.arg[1]
       IN  \E i \in NonEmptyCells(N) :
              /\ i > CellOf(N, m - 1)
              /\ \E c \in DOMAIN N[i] : N[i][c] = Shadow
              /\ v[RankOf(N, i)] # v[RankOf(N, CellOf(N, m - 1))]
              /\ Val(out.ret)[m - 1] = v[RankOf(N, CellOf(N, m - 1))]

\* the number of points of the cell of row i
Occupancy(N, i) == Cardinality(PointsOfCell(N, i))

\* C15: after a successful fit, in every row of the indexing matrix the
\* point indices fill the first slots in strictly ascending order and only
\* shadow indices follow; the number of columns is the largest number of
\* points that the fit assigned to one cell.
C15_RowsPackedAscending ==
    (FitCall /\ out.raised = "none") =>
        LET N == Val(rf.N)
            Xn == center_and_scale(rf, Val(out.arg[1]))
            assigned(i) == { j \in 1..Len(Xn) : point_index(rf.cell_size, Xn[j]) = i }
        IN  /\ \A i \in DOMAIN N :
                  LET cnt == Occupancy(N, i)
                  IN  /\ \A c \in DOMAIN N[i] :
                            IF c < cnt THEN N[i][c] >= 0 ELSE N[i][c] = Shadow
                      /\ \A c \in DOMAIN N[i] :
                            (c + 1 < cnt) => N[i][c] < N[i][c + 1]
                      /\ cnt = Cardinality(assigned(i))
            /\ \E i \in DOMAIN N : DOMAIN N[i] = 0..(Occupancy(N, i) - 1)
            /\ \A i \in DOMAIN N : DOMAIN N[i] = 0..(Cardinality(DOMAIN N[i]) - 1)
            /\ \A i \in DOMAIN N : \A i2 \in DOMAIN N : DOMAIN N[i] = DOMAIN N[i2]

\* a fit of three points in which the points 0 and 2 share a cell and the
\* point 1 is alone in another one, whose row ends with a shadow index
C15_Witness ==
    /\ FitCall /\ out.raised = "none"
    /\ Val(rf.m) = 3
    /\ \E i \in DOMAIN Val(rf.N) : Val(rf.N)[i] = (0 :> 0 @@ 1 :> 2)
    /\ \E i \in DOMAIN Val(rf.N) : Val(rf.N)[i] = (0 :> 1 @@ 1 :> Shadow)

\* C16: the support coordinate that the interpolation reconstructs from the
\* flattened index of a cell is the inverse of the flattening of fit: for
\* every configured cell_size and every cell index i in 0..num_cells-1, the
\* cell index that fit computes for the support coordinate of cell i is i.
C16_SupportInvertsFlattening ==
    (rf.constructed /\ ValidCellSize(rf.cell_size)) =>
        \A i \in 0..(rf.num_cells - 1) :
            point_index(rf.cell_size, sup_missing_Y(rf.cell_size, i)) = i

====
